---- MODULE Spec2Model ----
(***************************************************************************)
(* eo-trader: the Decision Engine (bot.rs, message.rs, candlestick.rs,     *)
(* trade.rs, expertoption.rs) and the TradingView quote session            *)
(* (tradingview.rs).  The two programs share no state: main.rs runs the    *)
(* Bot, tradingview_ws is a separate entry point.  `prog` says which of    *)
(* the two entry points the process runs.                                  *)
(*                                                                         *)
(* f64 prices are modelled by small integers: every comparison the code    *)
(* makes is a comparison of sums and differences, which integers keep.     *)
(* A panic (unwrap / expect / index out of bounds) stops the program:      *)
(* pc = "panicked" and the err variable names the failing call.            *)
(***************************************************************************)
EXTENDS Integers, Sequences, FiniteSets, TLC

VARIABLES
    prog,          \* "bot" (main.rs) or "quote" (tradingview_ws)
    \* ---- Decision Engine
    arrived,       \* inbound transport items delivered by the server so far
    streamEnded,   \* the inbound stream has ended (read.next() yields None when drained)
    reads,         \* items taken by read.next().await
    cur,           \* the item taken last (the loop's local `msg`)
    botPc,         \* "running" | "sending" | "done" | "panicked"
    botErr,        \* "none" or the panic's cause
    trend,         \* Bot.trend
    trades,        \* Bot.trades
    attempts,      \* trades handed to ExpertOption::send_trade, in order
    \* ---- quote session
    session,       \* tradingview_ws's `session`
    qPc,           \* "connected" | "session" | "created" | "fields" | "job" | "loop" | "panicked"
    qErr,          \* "none" or the panic's cause
    qOut,          \* frames written to the WebSocket, in order
    qReads,        \* messages taken by ws.recv_message()
    qCur,          \* the message taken last (the loop's `result`)
    qQuotes        \* the quotes printed, in order

botVars == <<arrived, streamEnded, reads, cur, botPc, botErr, trend, trades, attempts>>
quoteVars == <<session, qPc, qErr, qOut, qReads, qCur, qQuotes>>
vars == <<prog, arrived, streamEnded, reads, cur, botPc, botErr, trend, trades, attempts,
          session, qPc, qErr, qOut, qReads, qCur, qQuotes>>

(***************************************************************************)
(* Bounds                                                                  *)
(***************************************************************************)
MaxPrice == 1
MaxMsgs == 2

Prices == 0..MaxPrice

(***************************************************************************)
(* Inbound transport items of the Decision Engine.                         *)
(* A text item carries what serde_json makes of it: valid (it parses),     *)
(* action (value["action"].as_str(): "none" when absent or not a string),  *)
(* isArray (value["message"].as_array() is Some) and the array's elements, *)
(* each a number or not.                                                   *)
(***************************************************************************)
Num(n) == [num |-> TRUE, val |-> n]
NotNum == [num |-> FALSE, val |-> 0]

Text(valid, action, isArray, message) ==
    [kind |-> "text", valid |-> valid, action |-> action,
     isArray |-> isArray, message |-> message]
Frame(kind) ==
    [kind |-> kind, valid |-> FALSE, action |-> "none", isArray |-> FALSE, message |-> <<>>]

NumSeqs(n) == [1..n -> {Num(p) : p \in Prices}]

\* {"action":"candles","message":[open, close, high, low]}: every candle over Prices,
\* and two candles of realistic shape (low <= open, close <= high), one rising
\* with a long tail and one falling with a long head
ShapedCandles ==
    { <<Num(20), Num(21), Num(22), Num(4)>>, <<Num(60), Num(50), Num(100), Num(49)>> }
WellFormedCandles == {Text(TRUE, "candles", TRUE, m) : m \in NumSeqs(4) \cup ShapedCandles}
\* the same with fewer than four numbers
ShortCandles == {Text(TRUE, "candles", TRUE, m) : m \in NumSeqs(0) \cup NumSeqs(1) \cup NumSeqs(2) \cup NumSeqs(3)}
\* four or five elements, one of them not a number
NonNumericCandles ==
    {Text(TRUE, "candles", TRUE, [j \in 1..n |-> IF j = i THEN NotNum ELSE Num(p)]) :
        <<n, i, p>> \in {t \in (4..5) \X (1..5) \X Prices : t[2] <= t[1]}}
\* five numbers: the fifth is never read by from_candles
LongCandles == {Text(TRUE, "candles", TRUE, <<Num(p), Num(q), Num(q), Num(0), Num(p)>>) : <<p, q>> \in Prices \X Prices}
\* "message" absent or not an array
NoArrayCandles == {Text(TRUE, "candles", FALSE, <<>>)}
\* another action, or none; with and without a message array
OtherTexts == {Text(TRUE, a, TRUE, m) : <<a, m>> \in {"ping", "none"} \X {<<>>, <<Num(1), Num(2), Num(2), Num(0)>>}}
                \cup {Text(TRUE, "none", FALSE, <<>>)}
\* text that is not JSON
NotJson == {Text(FALSE, "none", FALSE, <<>>)}
\* Message::Close, Err(e), and Binary / Ping / Pong / Frame
TransportFrames == {Frame("close"), Frame("error"), Frame("other")}

Items == WellFormedCandles \cup ShortCandles \cup NonNumericCandles \cup LongCandles
            \cup NoArrayCandles \cup OtherTexts \cup NotJson \cup TransportFrames

NoItem == Frame("nothing")

(***************************************************************************)
(* candlestick.rs                                                          *)
(***************************************************************************)
\* from_candles: candles[0..3]; indexing panics when fewer than 4 elements
from_candles_ok(candles) == Len(candles) >= 4
from_candles(candles) ==
    [open |-> candles[1], close |-> candles[2], high |-> candles[3], low |-> candles[4]]

analyze_trend_inverted(c) ==
    IF c.close < c.open THEN "Up"
    ELSE IF c.close > c.open THEN "Down"
    ELSE "Unknown"
analyze_trend(c) ==
    IF c.close > c.open THEN "Up"
    ELSE IF c.close < c.open THEN "Down"
    ELSE "Unknown"

has_long_tail_weak(c) == c.open - c.low >= c.high - c.close
has_long_tail(c) == c.open - c.low > c.high - c.close

has_long_head_range(c) == c.high - c.low > c.open - c.close
has_long_head(c) == c.high - c.close > c.open - c.low

(***************************************************************************)
(* trade.rs                                                                *)
(***************************************************************************)
call(price) == [direction |-> "call", price |-> price]
put(price) == [direction |-> "put", price |-> price]

(***************************************************************************)
(* message.rs: Message::from_text                                          *)
(***************************************************************************)
from_text(item) ==
    IF ~item.valid THEN [tag |-> "Panic", err |-> "json", candles |-> <<>>]
    ELSE IF item.action = "candles" THEN
        IF ~item.isArray THEN [tag |-> "Panic", err |-> "message", candles |-> <<>>]
        ELSE IF \E i \in 1..Len(item.message) : ~item.message[i].num
            THEN [tag |-> "Panic", err |-> "number", candles |-> <<>>]
        ELSE [tag |-> "Candles", err |-> "none",
              candles |-> [i \in 1..Len(item.message) |-> item.message[i].val]]
    ELSE [tag |-> "Unknown", err |-> "none", candles |-> <<>>]

(***************************************************************************)
(* bot.rs                                                                  *)
(***************************************************************************)
\* execute_trades up to the send's await: the trades to push and hand to send_trade
execute_trades_always(t, c) ==
    IF t = "Up" THEN <<call(c.close)>>
    ELSE IF t = "Down" THEN <<put(c.close)>>
    ELSE <<>>
execute_trades(t, c) ==
    IF t = "Up" THEN (IF has_long_tail(c) THEN <<call(c.close)>> ELSE <<>>)
    ELSE IF t = "Down" THEN (IF has_long_head(c) THEN <<put(c.close)>> ELSE <<>>)
    ELSE <<>>

\* execute_trades' two statements on an emitted trade:
\* self.trades.push(trade.clone()); self.ws.send_trade(&trade)
emit_send_only(emitted) ==
    /\ trades' = trades
    /\ attempts' = attempts \o emitted
emit_prepend(emitted) ==
    /\ trades' = emitted \o trades
    /\ attempts' = emitted \o attempts
emit(emitted) ==
    /\ trades' = trades \o emitted
    /\ attempts' = attempts \o emitted

\* handle_message with the trade rule applied to the trend of the previous update
handle_message_stale(msg) ==
    IF msg.tag = "Candles" THEN
        IF ~from_candles_ok(msg.candles)
        THEN /\ botPc' = "panicked" /\ botErr' = "index"
             /\ UNCHANGED <<trend, trades, attempts>>
        ELSE LET candlestick == from_candles(msg.candles)
                 emitted == execute_trades(trend, candlestick)
             IN /\ trend' = analyze_trend(candlestick)
                /\ emit(emitted)
                /\ botPc' = IF emitted = <<>> THEN "running" ELSE "sending"
                /\ botErr' = botErr
    ELSE UNCHANGED <<botPc, botErr, trend, trades, attempts>>

\* handle_message, to its first await or its end
handle_message(msg) ==
    IF msg.tag = "Candles" THEN
        IF ~from_candles_ok(msg.candles)
        THEN /\ botPc' = "panicked" /\ botErr' = "index"
             /\ UNCHANGED <<trend, trades, attempts>>
        ELSE LET candlestick == from_candles(msg.candles)
                 t == analyze_trend(candlestick)
                 emitted == execute_trades(t, candlestick)
             IN /\ trend' = t
                /\ emit(emitted)
                /\ botPc' = IF emitted = <<>> THEN "running" ELSE "sending"
                /\ botErr' = botErr
    ELSE UNCHANGED <<botPc, botErr, trend, trades, attempts>>

\* Bot::run's arms that break: Ok(Message::Close(_)) and Err(e)
ends_loop_on_error_only(item) == item.kind = "error"
ends_loop(item) == item.kind \in {"close", "error"}

\* Bot::run, one iteration on Some(msg)
run_step(item) ==
    IF item.kind = "text" THEN
        LET msg == from_text(item)
        IN IF msg.tag = "Panic"
           THEN /\ botPc' = "panicked" /\ botErr' = msg.err
                /\ UNCHANGED <<trend, trades, attempts>>
           ELSE handle_message(msg)
    ELSE IF ends_loop(item) THEN
        /\ botPc' = "done"
        /\ UNCHANGED <<botErr, trend, trades, attempts>>
    ELSE UNCHANGED <<botPc, botErr, trend, trades, attempts>>

\* the server delivers one more item to the inbound stream
BotArrive ==
    /\ prog = "bot" /\ ~streamEnded /\ arrived < MaxMsgs
    /\ arrived' = arrived + 1
    /\ UNCHANGED <<prog, streamEnded, reads, cur, botPc, botErr, trend, trades, attempts>>
    /\ UNCHANGED quoteVars

\* the inbound stream ends
BotStreamEnd ==
    /\ prog = "bot" /\ ~streamEnded
    /\ streamEnded' = TRUE
    /\ UNCHANGED <<prog, arrived, reads, cur, botPc, botErr, trend, trades, attempts>>
    /\ UNCHANGED quoteVars

\* while let Some(msg) = read.next().await { ... }
BotRecv(item) ==
    /\ prog = "bot" /\ botPc = "running" /\ reads < arrived
    /\ reads' = reads + 1
    /\ cur' = item
    /\ run_step(item)
    /\ UNCHANGED <<prog, arrived, streamEnded>>
    /\ UNCHANGED quoteVars

\* read.next().await yields None
BotEnd ==
    /\ prog = "bot" /\ botPc = "running" /\ reads = arrived /\ streamEnded
    /\ botPc' = "done"
    /\ UNCHANGED <<prog, arrived, streamEnded, reads, cur, botErr, trend, trades, attempts>>
    /\ UNCHANGED quoteVars

\* ExpertOption::send_trade: self.write.send(msg).await.expect(..)
send_trade_lenient(ok) ==
    /\ botPc' = "running"
    /\ botErr' = IF ok THEN botErr ELSE "send"
send_trade(ok) ==
    IF ok THEN botPc' = "running" /\ botErr' = botErr
    ELSE botPc' = "panicked" /\ botErr' = "send"

BotSendDone(ok) ==
    /\ prog = "bot" /\ botPc = "sending"
    /\ send_trade(ok)
    /\ UNCHANGED <<prog, arrived, streamEnded, reads, cur, trend, trades, attempts>>
    /\ UNCHANGED quoteVars

BotStep ==
    \/ \E item \in Items : BotRecv(item)
    \/ BotEnd
    \/ \E ok \in BOOLEAN : BotSendDone(ok)


(***************************************************************************)
(* tradingview.rs: text is modelled as sequences of characters             *)
(***************************************************************************)
\* ~m~
MarkerM ==
    <<"~","m","~">>
\* quote_completed
QuoteCompleted ==
    <<"q","u","o","t","e","_","c","o","m","p","l","e","t","e","d">>
\* session_id
SessionIdTag ==
    <<"s","e","s","s","i","o","n","_","i","d">>
\* qs_
SessionPrefix ==
    <<"q","s","_">>
\* abcdefghijklmnopqrstuvwxyz
LowerLetters ==
    <<"a","b","c","d","e","f","g","h","i","j","k","l","m","n","o","p","q","r","s","t","u","v","w","x","y","z">>
\* ABCDEFGHIJKLMNOPQRSTUVWXYZ
UpperLetters ==
    <<"A","B","C","D","E","F","G","H","I","J","K","L","M","N","O","P","Q","R","S","T","U","V","W","X","Y","Z">>
\* 0123456789
Digits ==
    <<"0","1","2","3","4","5","6","7","8","9">>
\* quote_create_session
FnCreateSession ==
    <<"q","u","o","t","e","_","c","r","e","a","t","e","_","s","e","s","s","i","o","n">>
\* quote_set_fields
FnSetFields ==
    <<"q","u","o","t","e","_","s","e","t","_","f","i","e","l","d","s">>
\* quote_add_symbols
FnAddSymbols ==
    <<"q","u","o","t","e","_","a","d","d","_","s","y","m","b","o","l","s">>
\* lp
FieldLp ==
    <<"l","p">>
\* volume
FieldVolume ==
    <<"v","o","l","u","m","e">>
\* ch
FieldCh ==
    <<"c","h">>
\* chp
FieldChp ==
    <<"c","h","p">>
\* {"m":
ObjOpenM ==
    <<"{","\"","m","\"",":">>
\* ,"p":[
KeyP ==
    <<",","\"","p","\"",":","[">>
\* ]}
ObjCloseP ==
    <<"]","}">>
\* {"session_id":1}
PayloadSessionInfo ==
    <<"{","\"","s","e","s","s","i","o","n","_","i","d","\"",":","1","}">>
\* {"m":"quote_completed"}
PayloadCompleted ==
    <<"{","\"","m","\"",":","\"","q","u","o","t","e","_","c","o","m","p","l","e","t","e","d","\"","}">>
\* ~h~1
PayloadPing ==
    <<"~","h","~","1">>
\* {"m":"qsd","p":["qs",{"n":"A:B","v":{"lp":1,"ch":2}}]}
PayloadQuote ==
    <<"{","\"","m","\"",":","\"","q","s","d","\"",",","\"","p","\"",":","[","\"","q","s","\"",",","{","\"","n","\"",":","\"","A",":","B","\"",",","\"","v","\"",":","{","\"","l","p","\"",":","1",",","\"","c","h","\"",":","2","}","}","]","}">>
\* {"m":"x","p":["qs",1]}
PayloadNoObject ==
    <<"{","\"","m","\"",":","\"","x","\"",",","\"","p","\"",":","[","\"","q","s","\"",",","1","]","}">>
\* {"p":["qs",{"v":{"lp":1}}]}
PayloadNoN ==
    <<"{","\"","p","\"",":","[","\"","q","s","\"",",","{","\"","v","\"",":","{","\"","l","p","\"",":","1","}","}","]","}">>
\* {"p":["qs",{"n":"A:B"}]}
PayloadNoV ==
    <<"{","\"","p","\"",":","[","\"","q","s","\"",",","{","\"","n","\"",":","\"","A",":","B","\"","}","]","}">>
\* A:B
SymAB ==
    <<"A",":","B">>
\* btc
StrBtc ==
    <<"b","t","c">>
\* bn
StrBinance ==
    <<"b","n">>
\* cx
StrCx ==
    <<"c","x">>

\* str::contains
Contains(s, pat) ==
    \E i \in 1..(Len(s) - Len(pat) + 1) : SubSeq(s, i, i + Len(pat) - 1) = pat

\* the base-10 text of a length ({} in format!)
RECURSIVE Decimal(_)
Decimal(n) ==
    IF n < 10 THEN <<Digits[n + 1]>>
    ELSE Decimal(n \div 10) \o <<Digits[(n % 10) + 1]>>

\* str::to_uppercase on ASCII text
to_uppercase(s) ==
    [i \in 1..Len(s) |->
        IF \E k \in 1..Len(LowerLetters) : LowerLetters[k] = s[i]
        THEN UpperLetters[CHOOSE k \in 1..Len(LowerLetters) : LowerLetters[k] = s[i]]
        ELSE s[i]]

\* serde_json's text of a string without characters to escape
JsonString(s) == <<"\"">> \o s \o <<"\"">>

RECURSIVE JsonList(_)
JsonList(list) ==
    IF list = <<>> THEN <<>>
    ELSE IF Len(list) = 1 THEN JsonString(list[1])
    ELSE JsonString(list[1]) \o <<",">> \o JsonList(Tail(list))

\* construct_message: json!({"m": func, "p": param_list}).to_string()
construct_message(func, param_list) ==
    ObjOpenM \o JsonString(func) \o KeyP \o JsonList(param_list) \o ObjCloseP

\* prepend_header: format!("~m~{}~m~{}", content.len(), content)
prepend_header_chars_after(content) ==
    MarkerM \o Decimal(Len(content) + Len(MarkerM)) \o MarkerM \o content
prepend_header(content) ==
    MarkerM \o Decimal(Len(content)) \o MarkerM \o content

create_message(func, param_list) == prepend_header(construct_message(func, param_list))

\* generate_session: "qs_" and string_length random lowercase letters
\* (a sample of the 26^12 strings: two letters, alternating or not)
string_length == 12
SampleLetters == {"a", "z"}
Sessions ==
    {SessionPrefix \o [i \in 1..string_length |-> IF i % 2 = 0 THEN l[1] ELSE l[2]] :
        l \in SampleLetters \X SampleLetters}
NoSession == <<>>

(***************************************************************************)
(* What the symbol search can answer.  ok: the request, its status and     *)
(* the body's JSON decoding succeeded; isNull: the body is JSON null;      *)
(* symbol, prefix, exchange: data[0]'s string fields, <<>> when absent     *)
(* (all three absent when the body is an empty array).                     *)
(***************************************************************************)
SearchResult(ok, isNull, symbol, prefix, exchange) ==
    [ok |-> ok, isNull |-> isNull, symbol |-> symbol, prefix |-> prefix, exchange |-> exchange]
SearchResults ==
    { SearchResult(FALSE, FALSE, <<>>, <<>>, <<>>),
      SearchResult(TRUE, TRUE, <<>>, <<>>, <<>>),
      SearchResult(TRUE, FALSE, <<>>, <<>>, <<>>),
      SearchResult(TRUE, FALSE, <<StrBtc>>, <<>>, <<>>),
      SearchResult(TRUE, FALSE, <<StrBtc>>, <<StrCx>>, <<StrBinance>>),
      SearchResult(TRUE, FALSE, <<StrBtc>>, <<>>, <<StrBinance>>) }

\* search(..) is Ok (no reqwest error, and the assert on null passes)
search_ok(r) == r.ok /\ ~r.isNull

\* get_symbol_id returns (none of its unwraps panics)
get_symbol_id_ok(r) ==
    /\ search_ok(r)
    /\ r.symbol # <<>>
    /\ (r.prefix # <<>> \/ r.exchange # <<>>)

get_symbol_id(r) ==
    LET broker == IF r.prefix # <<>> THEN r.prefix[1] ELSE r.exchange[1]
    IN to_uppercase(broker) \o <<":">> \o to_uppercase(r.symbol[1])

(***************************************************************************)
(* Inbound messages of the quote session                                   *)
(***************************************************************************)
\* what the server puts around a payload
ServerFrame(payload) == MarkerM \o Decimal(Len(payload)) \o MarkerM \o payload

ChunkSessionInfo == ServerFrame(PayloadSessionInfo)
ChunkCompleted == ServerFrame(PayloadCompleted)
ChunkPing == ServerFrame(PayloadPing)
ChunkShort == PayloadPing
ChunkSeven == ServerFrame(<<>>)
ChunkQuote == ServerFrame(PayloadQuote)
ChunkQuoteBrace == ServerFrame(PayloadQuote) \o <<"}">>
ChunkNoObject == PayloadNoObject \o <<"}">>
ChunkNoN == PayloadNoN \o <<"}">>
ChunkNoV == PayloadNoV \o <<"}">>
\* framed envelopes that are no quote
ChunkFramedNoObject == ServerFrame(PayloadNoObject)
ChunkFramedNoN == ServerFrame(PayloadNoN)
ChunkFramedNoV == ServerFrame(PayloadNoV)
\* two frames in one message: a keepalive, then a quote push
ChunkPingThenQuote == ServerFrame(PayloadPing) \o ServerFrame(PayloadQuote)
\* two frames in one message: a quote push, then a keepalive
ChunkQuoteThenPing == ServerFrame(PayloadQuote) \o ServerFrame(PayloadPing)

Chunks == {ChunkSessionInfo, ChunkCompleted, ChunkPing, ChunkShort, ChunkSeven,
           ChunkQuote, ChunkQuoteBrace, ChunkNoObject, ChunkNoN, ChunkNoV,
           ChunkFramedNoObject, ChunkFramedNoN, ChunkFramedNoV,
           ChunkPingThenQuote, ChunkQuoteThenPing}

QMsg(kind, text) == [kind |-> kind, text |-> text]
\* OwnedMessage::Text, Close, Binary / Ping / Pong, and recv_message's Err
QMessages == {QMsg("text", c) : c \in Chunks}
                \cup {QMsg("close", <<>>), QMsg("other", <<>>), QMsg("error", <<>>)}
NoQMsg == QMsg("nothing", <<>>)

(***************************************************************************)
(* serde_json::from_str on the texts the sample chunks can yield: the      *)
(* envelope as parse_price_data reads it.  p1Object: json["p"][1] is an    *)
(* object; n: its "n" when a string; hasN, hasV: the keys are present;     *)
(* lp, volume, ch, chp: v's numbers, <<>> when absent.                     *)
(***************************************************************************)
Envelope(p1Object, hasN, n, hasV, lp, volume, ch, chp) ==
    [valid |-> TRUE, p1Object |-> p1Object, hasN |-> hasN, n |-> n, hasV |-> hasV,
     lp |-> lp, volume |-> volume, ch |-> ch, chp |-> chp]
InvalidJson ==
    [valid |-> FALSE, p1Object |-> FALSE, hasN |-> FALSE, n |-> <<>>, hasV |-> FALSE,
     lp |-> <<>>, volume |-> <<>>, ch |-> <<>>, chp |-> <<>>]

from_str(text) ==
    IF text = PayloadQuote
        THEN Envelope(TRUE, TRUE, <<SymAB>>, TRUE, <<1>>, <<>>, <<2>>, <<>>)
    ELSE IF text = PayloadNoObject
        THEN Envelope(FALSE, FALSE, <<>>, FALSE, <<>>, <<>>, <<>>, <<>>)
    ELSE IF text = PayloadNoN
        THEN Envelope(TRUE, FALSE, <<>>, TRUE, <<1>>, <<>>, <<>>, <<>>)
    ELSE IF text = PayloadNoV
        THEN Envelope(TRUE, TRUE, <<SymAB>>, FALSE, <<>>, <<>>, <<>>, <<>>)
    ELSE InvalidJson

\* Option::unwrap_or(0.0)
unwrap_or_zero(opt) == IF opt = <<>> THEN 0 ELSE opt[1]

\* parse_price_data: "panic", or the lines it prints
parse_price_data(json_str) ==
    LET json_res == from_str(json_str)
    IN IF ~json_res.valid THEN [panic |-> "json", printed |-> <<>>]
       ELSE IF ~json_res.p1Object THEN [panic |-> "none", printed |-> <<>>]
       ELSE IF ~json_res.hasN \/ json_res.n = <<>> THEN [panic |-> "key", printed |-> <<>>]
       ELSE IF ~json_res.hasV THEN [panic |-> "key", printed |-> <<>>]
       ELSE [panic |-> "none",
             printed |-> << [symbol |-> json_res.n[1],
                             price |-> unwrap_or_zero(json_res.lp),
                             change |-> unwrap_or_zero(json_res.ch),
                             change_percentage |-> unwrap_or_zero(json_res.chp),
                             volume |-> unwrap_or_zero(json_res.volume)] >>]

\* regex_.captures(result), regex ^.*?({.*)}$ : group 1, as a sequence of 0 or 1 texts
regex_capture(result) ==
    LET n == Len(result)
        opens == {i \in 1..(n - 1) : result[i] = "{"}
    IN IF n >= 2 /\ result[n] = "}" /\ opens # {}
       THEN LET first == CHOOSE i \in opens : \A j \in opens : i <= j
            IN <<SubSeq(result, first, n - 1)>>
       ELSE <<>>

\* send_ping_packet's ping_str, regex .......(.*) : group 1, or ""
ping_str_six(result) ==
    IF Len(result) >= 6 THEN SubSeq(result, 7, Len(result)) ELSE <<>>
ping_str(result) ==
    IF Len(result) >= 7 THEN SubSeq(result, 8, Len(result)) ELSE <<>>

\* send_ping_packet's frame: format!("~m~{}~m~{}", ping_str.len(), ping_str)
ping_message(p) == MarkerM \o Decimal(Len(p)) \o MarkerM \o p

is_control(result) == Contains(result, QuoteCompleted) \/ Contains(result, SessionIdTag)

\* ws.send_message(..).unwrap()
ws_send(frame, ok, nextPc) ==
    IF ok THEN /\ qOut' = Append(qOut, frame)
               /\ qPc' = nextPc
               /\ qErr' = qErr
    ELSE /\ qPc' = "panicked"
         /\ qErr' = "send"
         /\ qOut' = qOut

\* send_message(ws, func, args)
send_message(func, args, ok, nextPc) == ws_send(create_message(func, args), ok, nextPc)

\* the three send_message calls of tradingview_ws, in program order
handshake_call_swapped(step, sess, symbol_id) ==
    IF step = 2 THEN [func |-> FnCreateSession, args |-> <<sess>>]
    ELSE IF step = 1 THEN [func |-> FnSetFields,
                           args |-> <<sess, FieldLp, FieldVolume, FieldCh, FieldChp>>]
    ELSE [func |-> FnAddSymbols, args |-> <<sess, symbol_id>>]
handshake_call(step, sess, symbol_id) ==
    IF step = 1 THEN [func |-> FnCreateSession, args |-> <<sess>>]
    ELSE IF step = 2 THEN [func |-> FnSetFields,
                           args |-> <<sess, FieldLp, FieldVolume, FieldCh, FieldChp>>]
    ELSE [func |-> FnAddSymbols, args |-> <<sess, symbol_id>>]

\* let session = generate_session();
QGenerateSession ==
    /\ prog = "quote" /\ qPc = "connected"
    /\ session' \in Sessions
    /\ qPc' = "session"
    /\ UNCHANGED <<prog, qErr, qOut, qReads, qCur, qQuotes>>
    /\ UNCHANGED botVars

\* send_message(&mut client, "quote_create_session", ..)
QCreateSession(ok) ==
    /\ prog = "quote" /\ qPc = "session"
    /\ LET c == handshake_call(1, session, <<>>)
       IN send_message(c.func, c.args, ok, "created")
    /\ UNCHANGED <<prog, session, qReads, qCur, qQuotes>>
    /\ UNCHANGED botVars

\* send_message(&mut client, "quote_set_fields", ..)
QSetFields(ok) ==
    /\ prog = "quote" /\ qPc = "created"
    /\ LET c == handshake_call(2, session, <<>>)
       IN send_message(c.func, c.args, ok, "fields")
    /\ UNCHANGED <<prog, session, qReads, qCur, qQuotes>>
    /\ UNCHANGED botVars

\* send_message(&mut client, "quote_add_symbols", vec![.., json!(get_symbol_id(pair, market))])
QAddSymbols(r, ok) ==
    /\ prog = "quote" /\ qPc = "fields"
    /\ IF ~get_symbol_id_ok(r)
       THEN /\ qPc' = "panicked"
            /\ qErr' = "symbol"
            /\ qOut' = qOut
       ELSE LET c == handshake_call(3, session, get_symbol_id(r))
            IN send_message(c.func, c.args, ok, "job")
    /\ UNCHANGED <<prog, session, qReads, qCur, qQuotes>>
    /\ UNCHANGED botVars

\* socket_job: Regex::new(r"^.*?({.*)}$").unwrap().  The pattern has an unescaped
\* opening brace, which the regex crate may refuse: both outcomes are kept.
QSocketJob(compiled) ==
    /\ prog = "quote" /\ qPc = "job"
    /\ IF compiled THEN qPc' = "loop" /\ qErr' = qErr
       ELSE qPc' = "panicked" /\ qErr' = "regex"
    /\ UNCHANGED <<prog, session, qOut, qReads, qCur, qQuotes>>
    /\ UNCHANGED botVars

\* get_price's result: Break for a control chunk
get_price_flow(result) == IF is_control(result) THEN "Break" ELSE "Continue"

\* get_price(result, regex_, ws)
get_price(result, ok) ==
    IF get_price_flow(result) = "Break"
    THEN UNCHANGED <<qPc, qErr, qOut, qQuotes>>
    ELSE LET res == regex_capture(result)
         IN IF res # <<>>
            THEN LET out == parse_price_data(res[1])
                 IN /\ qQuotes' = qQuotes \o out.printed
                    /\ qOut' = qOut
                    /\ IF out.panic = "none" THEN UNCHANGED <<qPc, qErr>>
                       ELSE qPc' = "panicked" /\ qErr' = out.panic
            ELSE /\ qQuotes' = qQuotes
                 /\ IF ping_str(result) # <<>>
                    THEN ws_send(ping_message(ping_str(result)), ok, "loop")
                    ELSE UNCHANGED <<qPc, qErr, qOut>>

\* socket_job: one iteration of loop { let result = ws.recv_message().unwrap(); match result {..} }
\* On Break the body runs `continue`, on Continue it falls to the loop's end:
\* either way the next iteration follows.
socket_job_step(msg, ok) ==
    IF msg.kind = "error"
    THEN /\ qPc' = "panicked" /\ qErr' = "recv"
         /\ UNCHANGED <<qOut, qQuotes>>
    ELSE IF msg.kind = "text"
    THEN get_price(msg.text, ok)
    ELSE UNCHANGED <<qPc, qErr, qOut, qQuotes>>

QRecv(msg, ok) ==
    /\ prog = "quote" /\ qPc = "loop" /\ qReads < MaxMsgs
    /\ qReads' = qReads + 1
    /\ qCur' = msg
    /\ socket_job_step(msg, ok)
    /\ UNCHANGED <<prog, session>>
    /\ UNCHANGED botVars

QuoteStep ==
    \/ QGenerateSession
    \/ \E ok \in BOOLEAN : QCreateSession(ok)
    \/ \E ok \in BOOLEAN : QSetFields(ok)
    \/ \E r \in SearchResults, ok \in BOOLEAN : QAddSymbols(r, ok)
    \/ \E compiled \in BOOLEAN : QSocketJob(compiled)
    \/ \E msg \in QMessages, ok \in BOOLEAN : QRecv(msg, ok)

Init ==
    /\ prog \in {"bot", "quote"}
    /\ arrived = 0 /\ streamEnded = FALSE /\ reads = 0 /\ cur = NoItem
    /\ botPc = "running" /\ botErr = "none"
    /\ trend = "Unknown" /\ trades = <<>> /\ attempts = <<>>
    /\ session = NoSession /\ qPc = "connected" /\ qErr = "none"
    /\ qOut = <<>> /\ qReads = 0 /\ qCur = NoQMsg /\ qQuotes = <<>>

Next ==
    \/ BotArrive
    \/ BotStreamEnd
    \/ BotStep
    \/ QuoteStep

Spec == Init /\ [][Next]_vars

\* the executor runs the Bot's future whenever it can make progress
FairSpec == Spec /\ WF_vars(BotStep)

(***************************************************************************)
(* Properties                                                              *)
(***************************************************************************)
\* the step is one read of the Decision Engine's loop
BotReadStep == reads' = reads + 1

\* a candles update whose message is an array of at least four numbers
IsCandlesUpdate(item) ==
    /\ item.kind = "text" /\ item.valid /\ item.action = "candles" /\ item.isArray
    /\ Len(item.message) >= 4
    /\ \A i \in 1..Len(item.message) : item.message[i].num

Open(item) == item.message[1].val
Close(item) == item.message[2].val
High(item) == item.message[3].val
Low(item) == item.message[4].val

CallQualifies(item) ==
    Close(item) > Open(item) /\ (Open(item) - Low(item)) > (High(item) - Close(item))
PutQualifies(item) ==
    Close(item) < Open(item) /\ (High(item) - Close(item)) > (Open(item) - Low(item))
Qualifies(item) == IsCandlesUpdate(item) /\ (CallQualifies(item) \/ PutQualifies(item))

Emits(direction, price) ==
    LET trade == [direction |-> direction, price |-> price]
    IN trades' = Append(trades, trade) /\ attempts' = Append(attempts, trade)

\* C1: for every candles update [open, close, high, low] the engine processes, a
\* Call priced at close is emitted iff close > open and open - low > high - close,
\* a Put priced at close iff close < open and high - close > open - low, and in
\* every other case (close = open among them) nothing is emitted.
C1_TradeRule ==
    [][(BotReadStep /\ IsCandlesUpdate(cur')) =>
        /\ Emits("call", Close(cur')) <=> CallQualifies(cur')
        /\ Emits("put", Close(cur')) <=> PutQualifies(cur')
        /\ (~CallQualifies(cur') /\ ~PutQualifies(cur')) =>
                (trades' = trades /\ attempts' = attempts)
        /\ (Close(cur') = Open(cur')) => (trades' = trades /\ attempts' = attempts)]_vars

\* a Call was emitted for a rising long-tailed candle, a Put for a falling long-headed one
C1_Witness ==
    /\ reads = 2 /\ Len(trades) = 2
    /\ trades[1].direction = "call" /\ trades[2].direction = "put"
    /\ IsCandlesUpdate(cur) /\ PutQualifies(cur) /\ trades[2].price = Close(cur)

\* C2: every step adds exactly one send attempt when it processes a qualifying
\* candle and none otherwise, so the number of send attempts always equals the
\* number of qualifying candles processed.
C2_OneAttemptPerQualifyingCandle ==
    [][/\ Len(attempts') = Len(attempts) + (IF BotReadStep /\ Qualifies(cur') THEN 1 ELSE 0)
       /\ SubSeq(attempts', 1, Len(attempts)) = attempts]_vars

\* two qualifying candles were processed and two sends attempted
C2_Witness == reads = 2 /\ Len(attempts) = 2 /\ Qualifies(cur)

\* a candles update with fewer than 4 elements or a non-numeric element
IsMalformedUpdate(item) ==
    /\ item.kind = "text" /\ item.valid /\ item.action = "candles" /\ item.isArray
    /\ \/ Len(item.message) < 4
       \/ \E i \in 1..Len(item.message) : ~item.message[i].num

\* C3: a malformed candles update is skipped: trend and trade log unchanged, nothing
\* sent, and the engine goes on to the following messages.
C3_MalformedSkipped ==
    [][(BotReadStep /\ IsMalformedUpdate(cur')) =>
        /\ trend' = trend /\ trades' = trades /\ attempts' = attempts
        /\ botPc' = "running"]_vars

\* a text message with another action value or without one, or a non-text
\* transport message that is not a close
IsNotCandlesUpdate(item) ==
    \/ item.kind = "text" /\ item.action # "candles"
    \/ item.kind = "other"

\* C4: a message that is not a candles update is ignored: trend and trade log
\* unchanged, nothing sent, and the loop continues with the next message.
C4_OthersIgnored ==
    [][(BotReadStep /\ IsNotCandlesUpdate(cur')) =>
        /\ trend' = trend /\ trades' = trades /\ attempts' = attempts
        /\ botPc' = "running"]_vars

\* the chunk carries one of the two control substrings
IsControlChunk(msg) ==
    msg.kind = "text" /\ (Contains(msg.text, QuoteCompleted) \/ Contains(msg.text, SessionIdTag))

\* C5: once the parse loop has received a control chunk (quote_completed or
\* session_id), no further inbound chunk is read and no outbound frame is written.
C5_ControlChunkTerminates ==
    [][(qReads > 0 /\ IsControlChunk(qCur)) => (qReads' = qReads /\ qOut' = qOut)]_vars

\* frame f is the framed message `func` with `sess` as its first argument
IsFramedCall(f, func, sess) ==
    /\ SubSeq(f, 1, Len(MarkerM)) = MarkerM
    /\ Contains(f, MarkerM \o ObjOpenM \o JsonString(func) \o KeyP \o JsonString(sess))
MentionsHandshake(f) ==
    Contains(f, FnCreateSession) \/ Contains(f, FnSetFields) \/ Contains(f, FnAddSymbols)
HandshakeOrder == <<FnCreateSession, FnSetFields, FnAddSymbols>>

\* C6: the frames written are, in order, quote_create_session, quote_set_fields and
\* quote_add_symbols, each with the same session identifier as first argument;
\* no later frame is a handshake message, and the parse loop reads its first
\* chunk only after all three were written.
C6_HandshakeOrder ==
    /\ \A i \in 1..Len(qOut) :
            IF i <= 3 THEN IsFramedCall(qOut[i], HandshakeOrder[i], session)
            ELSE ~MentionsHandshake(qOut[i])
    /\ (qPc \in {"job", "loop"} \/ qReads > 0) => Len(qOut) >= 3

\* the loop has read a chunk, after the three handshake frames
C6_Witness == qReads > 0 /\ Len(qOut) >= 3 /\ session \in Sessions

\* C7: when symbol resolution fails, none of the handshake messages has been sent.
C7_NoPartialSession == (qErr = "symbol") => (qOut = <<>>)

\* C8: a failed send is fatal and not retried: after a failed trade send the engine
\* reads nothing more and attempts no further send; after a failed handshake or
\* keepalive send the quote session reads and writes nothing more.
C8_SendFailureFatal ==
    [][/\ (botErr = "send") =>
            /\ botPc = "panicked"
            /\ UNCHANGED <<reads, cur, botPc, botErr, trend, trades, attempts>>
       /\ (qErr = "send") =>
            /\ qPc = "panicked"
            /\ UNCHANGED <<qReads, qCur, qPc, qErr, qOut, qQuotes>>]_vars

\* a trade send failed while another inbound message was waiting
C8_Witness == botErr = "send" /\ reads < arrived /\ Len(attempts) = 1

\* C9: the loop terminates on the first close frame or transport error it reads and on
\* end of stream; once terminated, messages that still arrive change nothing; and
\* when the inbound stream has ended the loop eventually stops.
C9_StopsAtStreamEnd ==
    /\ [][(BotReadStep /\ cur'.kind \in {"close", "error"}) => botPc' = "done"]_vars
    /\ [][(botPc = "done") =>
            UNCHANGED <<reads, cur, botPc, botErr, trend, trades, attempts>>]_vars
    /\ (streamEnded ~> (botPc \in {"done", "panicked"}))

\* the loop stopped at a close frame and a later message arrived unread
C9_Witness == botPc = "done" /\ cur.kind = "close" /\ reads < arrived

\* C10: once the parse loop has received a close message or a receive error, it reads
\* no further inbound message and writes no further outbound frame.
C10_CloseStopsParseLoop ==
    [][(qReads > 0 /\ qCur.kind \in {"close", "error"}) =>
            (qReads' = qReads /\ qOut' = qOut)]_vars

(***************************************************************************)
(* The quote parse loop, one chunk at a time                               *)
(***************************************************************************)
QReadStep == qReads' = qReads + 1

\* the chunk's trailing JSON text: from its first `{` up to its final `}`
TrailingObject(text) ==
    LET n == Len(text)
        opens == {i \in 1..n : text[i] = "{"}
    IN IF n >= 2 /\ text[n] = "}" /\ opens # {}
       THEN <<SubSeq(text, CHOOSE i \in opens : \A j \in opens : i <= j, n)>>
       ELSE <<>>

\* the JSON envelopes read from the chunk's tail: by the rule above, and by
\* the text the loop itself hands to the parser
ExtractedEnvelopes(text) ==
    {e \in {from_str(t[1]) : t \in {TrailingObject(text), regex_capture(text)} \ {<<>>}} :
        e.valid}

IsQuoteEnvelope(e) == e.valid /\ e.p1Object /\ e.hasN /\ e.n # <<>> /\ e.hasV
IsMismatchEnvelope(e) == e.valid /\ (~e.p1Object \/ ~e.hasN \/ ~e.hasV)
OrZero(opt) == IF opt = <<>> THEN 0 ELSE opt[1]
QuoteOf(e) ==
    [symbol |-> e.n[1], price |-> OrZero(e.lp), volume |-> OrZero(e.volume),
     change |-> OrZero(e.ch), change_percentage |-> OrZero(e.chp)]

IsDataChunkStep == QReadStep /\ qCur'.kind = "text" /\ ~IsControlChunk(qCur')

\* C11: a non-control chunk whose trailing JSON object is a quote envelope
\* (second argument an object with n and v) makes the loop report exactly one
\* Quote built from n and v's lp, volume, ch, chp (0 when absent), write no
\* outbound frame and stay in the loop.
C11_QuoteReported ==
    [][\A e \in ExtractedEnvelopes(qCur'.text) :
          (IsDataChunkStep /\ IsQuoteEnvelope(e)) =>
              /\ qQuotes' = Append(qQuotes, QuoteOf(e))
              /\ qOut' = qOut
              /\ qPc' = "loop"]_vars

\* C12: a non-control chunk whose JSON envelope has no object as second
\* argument, or an object without n or without v, is dropped: no Quote, no
\* outbound frame, and the loop goes on to the next chunk.
C12_MismatchDropped ==
    [][\A e \in ExtractedEnvelopes(qCur'.text) :
          (IsDataChunkStep /\ IsMismatchEnvelope(e)) =>
              /\ qQuotes' = qQuotes
              /\ qOut' = qOut
              /\ qPc' = "loop"]_vars

\* the chunk without its first 7 characters
Remainder(text) == IF Len(text) > 7 THEN SubSeq(text, 8, Len(text)) ELSE <<>>
KeepaliveFrame(payload) == MarkerM \o Decimal(Len(payload)) \o MarkerM \o payload

JsonPayloads == {PayloadQuote, PayloadNoObject, PayloadNoN, PayloadNoV}

\* C14: when the loop receives encode(payload), alone or behind another
\* frame, the text its decode rule extracts is exactly payload.
C14_RoundTrip ==
    \A payload \in JsonPayloads :
        (/\ qReads > 0 /\ qCur.kind = "text"
         /\ qCur.text \in {prepend_header(payload),
                           prepend_header(PayloadPing) \o prepend_header(payload)})
            => regex_capture(qCur.text) = <<payload>>

IsDigit(c) == \E d \in 1..Len(Digits) : Digits[d] = c
DigitValue(c) == (CHOOSE d \in 1..Len(Digits) : Digits[d] = c) - 1
RECURSIVE DecimalValue(_)
DecimalValue(ds) ==
    IF ds = <<>> THEN 0
    ELSE 10 * DecimalValue(SubSeq(ds, 1, Len(ds) - 1)) + DigitValue(ds[Len(ds)])
\* f is ~m~<length>~m~<payload>, length the unpadded base-10 length of payload
WellFramed(f) ==
    \E k \in 4..(Len(f) - 3) :
        /\ SubSeq(f, 1, 3) = MarkerM
        /\ \A i \in 4..k : IsDigit(f[i])
        /\ (k > 4 => f[4] # "0")
        /\ SubSeq(f, k + 1, k + 3) = MarkerM
        /\ DecimalValue(SubSeq(f, 4, k)) = Len(f) - (k + 3)

\* C15: every frame the quote session has written, handshake message or
\* keepalive reply, is ~m~<length>~m~<payload> with <length> the payload's
\* length in base 10 without padding.
C15_FramesWellFormed == \A i \in 1..Len(qOut) : WellFramed(qOut[i])
C15_Witness ==
    /\ Len(qOut) = 5
    /\ qCur = QMsg("text", ChunkQuoteThenPing)

(***************************************************************************)
(* The decision engine: log, sends and trend over a run                    *)
(***************************************************************************)
\* C16: the trade handed to a send is already the last entry of the trade log
\* when the send starts, and the log is always as long as the list of sends
\* started, also after a send has failed.
C16_LoggedBeforeSent ==
    /\ Len(trades) = Len(attempts)
    /\ (botPc = "sending" \/ botErr = "send") =>
            (trades # <<>> /\ trades[Len(trades)] = attempts[Len(attempts)])
\* the second send failed; both trades are in the log
C16_Witness ==
    /\ botPc = "panicked" /\ botErr = "send"
    /\ Len(attempts) = 2 /\ Len(trades) = 2

\* the trades a message calls for: one for a qualifying candle, none otherwise
TradesOf(item) ==
    IF IsCandlesUpdate(item) /\ CallQualifies(item)
        THEN <<[direction |-> "call", price |-> Close(item)]>>
    ELSE IF IsCandlesUpdate(item) /\ PutQualifies(item)
        THEN <<[direction |-> "put", price |-> Close(item)]>>
    ELSE <<>>

\* C17: messages are taken one at a time, a message only when no send of an
\* earlier one is still in flight; the log only grows at its end, by the trade
\* of the message just taken, and the sends started are the log, in order.
C17_InOrderOneAtATime ==
    [][/\ Len(trades') >= Len(trades)
       /\ SubSeq(trades', 1, Len(trades)) = trades
       /\ attempts' = trades'
       /\ BotReadStep => (botPc = "running" /\ trades' = trades \o TradesOf(cur'))
       /\ ~BotReadStep => trades' = trades]_vars
\* a Put, then a Call, both sent, in the order their candles were taken
C17_Witness ==
    /\ reads = 2 /\ botPc = "running"
    /\ Len(trades) = 2 /\ attempts = trades
    /\ trades[1].direction = "put" /\ trades[2].direction = "call"
    /\ trades[2] = TradesOf(cur)[1]

ClassOf(item) ==
    IF Close(item) > Open(item) THEN "Up"
    ELSE IF Close(item) < Open(item) THEN "Down"
    ELSE "Unknown"

\* C18: the trend starts Unknown, becomes the classification of each candles
\* update processed, and is left alone by every other step.
C18_TrendTracksLastCandle ==
    /\ trend = "Unknown"
    /\ [][IF BotReadStep /\ IsCandlesUpdate(cur')
          THEN trend' = ClassOf(cur')
          ELSE trend' = trend]_vars
\* a falling candle, then a message that is no candles update
C18_Witness ==
    /\ reads = 2 /\ botPc = "running"
    /\ cur.kind = "text" /\ cur.valid /\ cur.action # "candles"
    /\ trend = "Down"

CandleOf(item) == from_candles(from_text(item).candles)

\* C19: no candle processed has both a long tail and a long head, and no step
\* extends the log by more than one entry.
C19_AtMostOneTrade ==
    [][/\ Len(trades') <= Len(trades) + 1
       /\ (BotReadStep /\ IsCandlesUpdate(cur')) =>
              ~(has_long_tail(CandleOf(cur')) /\ has_long_head(CandleOf(cur')))]_vars
\* a long-tailed rising candle gave one Call and no Put
C19_Witness ==
    /\ reads = 1 /\ IsCandlesUpdate(cur)
    /\ has_long_tail(CandleOf(cur)) /\ ~has_long_head(CandleOf(cur))
    /\ trades = <<[direction |-> "call", price |-> Close(cur)]>>

\* the sends started by the step
NewAttempts == SubSeq(attempts', Len(attempts) + 1, Len(attempts'))

\* C20: what is sent for a candles update is a function of that update alone,
\* TradesOf: whatever the trend and the log were before, the step sends
\* TradesOf of the update, so two runs agree on it whatever their histories.
C20_DecisionFromCandleAlone ==
    [][(BotReadStep /\ IsCandlesUpdate(cur')) =>
          \A before \in {"Up", "Down", "Unknown"} :
              trend = before => NewAttempts = TradesOf(cur')]_vars
\* a Call decided while the trend left by the earlier history was Down
C20_Witness ==
    /\ reads = 2 /\ Len(attempts) = 2
    /\ attempts[1].direction = "put" /\ attempts[2].direction = "call"
    /\ IsCandlesUpdate(cur) /\ CallQualifies(cur) /\ trend = "Up"
====
